---- MODULE Spec2Model ----
(***************************************************************************)
(* Capture readiness engine of DataInputScreen                             *)
(* (src/frontend/screens/LoginScreen.js, lines 480-1699) together with     *)
(* validateFiducials (src/unnamed/part_002).                               *)
(*                                                                         *)
(* Numbers.  Scores, accelerations and qualities are fixed-point values in *)
(* thousandths (Scale = 1000 stands for 1.0); times are milliseconds.      *)
(* The JavaScript values NaN, Infinity and undefined are encoded by three  *)
(* integers outside the range of every modelled number.                    *)
(*                                                                         *)
(* React.  A state variable holds the latest value queued by setState.     *)
(* Render is one step: it commits the latest state (the CameraView ref     *)
(* follows cameraVisible), then runs the effects whose dependencies        *)
(* changed, in source order, each reading the values of that render.       *)
(* Listener, timer and promise callbacks may run between a setState and    *)
(* the Render that follows it, because useEffect bodies are deferred.      *)
(***************************************************************************)
EXTENDS Integers, Sequences, FiniteSets, Bags, TLC

\* ------------------------------------------------------------------------
\* Bounds of the model
\* ------------------------------------------------------------------------
\* accelerometer samples delivered per monitoring subscription
MaxSamples == 2
\* checkFiducials and handleTakePhoto invocations that may be pending at
\* the same time
MaxPending == 2
\* callbacks that may run between a state change and the render it causes
MaxLag == 1
\* samples delivered to one subscription in the stream specifications
MaxStream == 5

\* ------------------------------------------------------------------------
\* Number encoding
\* ------------------------------------------------------------------------
Scale == 1000
NaN == 2000000001
Infinity == 2000000002
undefined == 2000000003

\* ------------------------------------------------------------------------
\* Program constants (LoginScreen.js 572-577, 838, 1030)
\* ------------------------------------------------------------------------
AUTO_CAPTURE_START_THRESHOLD == 550
AUTO_CAPTURE_CANCEL_THRESHOLD == 350
AUTO_CAPTURE_START_MS == 1200
MAX_ACCEL_DELTA == 350
MIN_FIDUCIALS_FOR_CAPTURE == 4
COUNTDOWN_TICK_MS == 120

\* ------------------------------------------------------------------------
\* Arithmetic helpers (Math.abs, Math.min, Math.max, Math.sqrt)
\* ------------------------------------------------------------------------
Abs(a) == IF a < 0 THEN 0 - a ELSE a
Min(a, b) == IF a <= b THEN a ELSE b
Max(a, b) == IF a >= b THEN a ELSE b

RECURSIVE SqrtSearch(_, _, _)
SqrtSearch(n, lo, hi) ==
  IF lo >= hi THEN lo
  ELSE LET mid == (lo + hi + 1) \div 2
       IN IF mid * mid <= n THEN SqrtSearch(n, mid, hi)
          ELSE SqrtSearch(n, lo, mid - 1)

\* floor of the square root of n, 0 <= n < 2^31
Sqrt(n) == SqrtSearch(n, 0, 46340)

\* Number.isFinite(v)
IsFinite(v) == v \notin {NaN, Infinity, undefined}

\* destructuring default: ({ x = 0 }) replaces undefined only
Default0(v) == IF v = undefined THEN 0 ELSE v

\* (v || 0): undefined, NaN and 0 are falsy
OrZero(v) == IF v \in {undefined, NaN} THEN 0 ELSE v

\* a - b on the encoded numbers
Sub(a, b) ==
  IF a = NaN \/ b = NaN THEN NaN
  ELSE IF a = Infinity /\ b = Infinity THEN NaN
  ELSE IF a = Infinity THEN Infinity
  ELSE IF b = Infinity THEN Infinity
  ELSE a - b

\* Math.max(0, Math.min(1, v)); NaN propagates through Math.min/Math.max
Clamp01(v) ==
  IF v = NaN THEN NaN
  ELSE IF v = Infinity THEN Scale
  ELSE Max(0, Min(Scale, v))

\* ------------------------------------------------------------------------
\* deriveAlignmentScore (LoginScreen.js 579-589)
\* A non-finite component makes component / magnitude NaN for that
\* component (Infinity / Infinity, NaN / m), and the NaN reaches the score
\* through tiltPenalty or lateralMotion.
\* ------------------------------------------------------------------------
deriveAlignmentScore(d) ==
  LET x == Default0(d.x)
      y == Default0(d.y)
      z == Default0(d.z)
  IN IF ~(IsFinite(x) /\ IsFinite(y) /\ IsFinite(z)) THEN NaN
     ELSE
       LET magnitude == Max(1, Sqrt(x * x + y * y + z * z))
           normX == (Abs(x) * Scale) \div magnitude
           normY == (Abs(y) * Scale) \div magnitude
           normZ == (Abs(z) * Scale) \div magnitude
           gravityDrift == Min(Scale, Abs(magnitude - Scale))
           tiltPenalty == Min(Scale, Abs(normZ - Scale))
           lateralMotion == Min(Scale, Sqrt(normX * normX + normY * normY))
           score == Scale - ((5 * tiltPenalty + 3 * gravityDrift + 2 * lateralMotion) \div 10)
       IN Max(0, Min(Scale, score))

\* ------------------------------------------------------------------------
\* computeJitterPenalty (LoginScreen.js 591-600); before it, a function
\* that never penalises.  A sample reference is a
\* sequence: << >> is null, << d >> is the sample d.
\* delta >= |dx|, so one difference of MAX_ACCEL_DELTA or more already
\* saturates Math.min(1, delta / MAX_ACCEL_DELTA).
\* ------------------------------------------------------------------------
computeJitterPenaltyNone(previousSample, currentSample) == 0

computeJitterPenalty(previousSample, currentSample) ==
  IF previousSample = << >> \/ currentSample = << >> THEN 0
  ELSE
    LET p == previousSample[1]
        c == currentSample[1]
        dx == Sub(OrZero(c.x), OrZero(p.x))
        dy == Sub(OrZero(c.y), OrZero(p.y))
        dz == Sub(OrZero(c.z), OrZero(p.z))
    IN IF NaN \in {dx, dy, dz} THEN NaN
       ELSE IF Infinity \in {dx, dy, dz} THEN Scale
       ELSE IF Max(Abs(dx), Max(Abs(dy), Abs(dz))) >= MAX_ACCEL_DELTA THEN Scale
       ELSE Min(Scale, (Sqrt(dx * dx + dy * dy + dz * dz) * Scale) \div MAX_ACCEL_DELTA)

\* jitterPenalty = computeJitterPenalty(...) * 0.45 and
\* composite = Math.max(0, Math.min(1, baseScore - jitterPenalty))
\* (LoginScreen.js 840-843)
Composite(previousSample, data) ==
  LET baseScore == deriveAlignmentScore(data)
      jp == computeJitterPenalty(previousSample, << data >>)
      jitterPenalty == IF jp = NaN THEN NaN ELSE (jp * 45) \div 100
  IN Clamp01(Sub(baseScore, jitterPenalty))

\* an updater that drops the new sample
SmoothDropsSample(prev, composite) ==
  IF IsFinite(prev) THEN (prev * 55 + 50) \div 100 ELSE composite

\* the updater of setAlignmentScore (LoginScreen.js 844)
Smooth(prev, composite) ==
  IF IsFinite(prev)
  THEN IF composite = NaN THEN NaN ELSE (prev * 55 + composite * 45 + 50) \div 100
  ELSE composite


\* ------------------------------------------------------------------------
\* Inputs
\* ------------------------------------------------------------------------
Level == [x |-> 0, y |-> 0, z |-> 1000]
OnSide == [x |-> 1000, y |-> 0, z |-> 0]
Flipped == [x |-> 0, y |-> 0, z |-> 0 - 1000]
ZeroVector == [x |-> 0, y |-> 0, z |-> 0]
HugeVector == [x |-> 0, y |-> 0, z |-> 20000]
MissingXY == [x |-> undefined, y |-> undefined, z |-> 1000]
NaNSample == [x |-> NaN, y |-> 0, z |-> 1000]
InfSample == [x |-> 0, y |-> 0, z |-> Infinity]

\* samples delivered to the listener in the engine specification
EngineSamples == {Level, OnSide}
\* samples delivered to the listener in the motion specification
MotionSamples == {Level, OnSide, Flipped, ZeroVector, HugeVector, MissingXY, NaNSample, InfSample}

\* a device at rest under a load: 0.35 away from Level
Heavy == [x |-> 0, y |-> 0, z |-> 1350]
\* samples of the shaking device
ShakeSamples == {Level, Heavy, OnSide}

\* bodies of /fiducial/validate answers; the last one is the object {}
FiducialResults ==
  { [detected |-> 4, quality |-> 900, ready |-> TRUE],
    [detected |-> 4, quality |-> 800, ready |-> TRUE],
    [detected |-> 2, quality |-> 400, ready |-> FALSE],
    [detected |-> undefined, quality |-> undefined, ready |-> FALSE] }

\* time between two runs of the countdown interval callback
TickDelays == {COUNTDOWN_TICK_MS, 3 * COUNTDOWN_TICK_MS}

\* ------------------------------------------------------------------------
\* The sample form (LoginScreen.js 506-529)
\* ------------------------------------------------------------------------
numericFormFields ==
  { "pH", "hardness", "solids", "chloramines", "sulfate", "conductivity",
    "organicCarbon", "trihalomethanes", "turbidity", "freeChlorineResidual" }

\* texts typed into the pH field: empty, a number, a number with a
\* thousands comma, padded, signed with a leading dot, a letter, two
\* numbers, a lone comma, a lone dot, a blank, a lone sign
RichTexts ==
  { << >>, << "7" >>, << "7", ",", "7" >>, << " ", "7", ".", " " >>,
    << "-", ".", "7" >>, << "x" >>, << "7", " ", "7" >>, << "," >>, << "." >>,
    << " " >>, << "-" >> }

\* texts typed into the other fields
PlainTexts == { << >>, << "7" >> }

FieldTexts(key) == IF key = "pH" THEN RichTexts ELSE PlainTexts

\* String(value).replace(/,/g, '')
RemoveCommas(text) == SelectSeq(text, LAMBDA c : c # ",")

\* .trim()
RECURSIVE TrimStart(_)
TrimStart(text) ==
  IF text # << >> /\ Head(text) = " " THEN TrimStart(Tail(text)) ELSE text

RECURSIVE TrimEnd(_)
TrimEnd(text) ==
  IF text # << >> /\ text[Len(text)] = " "
  THEN TrimEnd(SubSeq(text, 1, Len(text) - 1)) ELSE text

Trim(text) == TrimEnd(TrimStart(text))

\* Number(text) is a finite number, for a non-empty text over the
\* characters 7 . - x and blank: an optional sign, then digits with an
\* optional dot and digits, or a dot and digits
NumberIsFinite(text) ==
  LET unsigned == IF Head(text) = "-" THEN Tail(text) ELSE text
      dots == { i \in 1..Len(unsigned) : unsigned[i] = "." }
  IN /\ unsigned # << >>
     /\ Cardinality(dots) <= 1
     /\ \E i \in 1..Len(unsigned) : unsigned[i] = "7"
     /\ \A i \in 1..Len(unsigned) : unsigned[i] \in {"7", "."}

\* the value null, and the number written by text
Null == [isNumber |-> FALSE, text |-> << >>]
NumberOf(text) == [isNumber |-> TRUE, text |-> text]

\* parseNumericInput (LoginScreen.js 519-529)
parseNumericInput(value) ==
  LET normalized == Trim(RemoveCommas(value))
  IN IF normalized = << >> THEN Null
     ELSE IF NumberIsFinite(normalized) THEN NumberOf(normalized)
     ELSE Null

\* ------------------------------------------------------------------------
\* State
\* ------------------------------------------------------------------------
VARIABLES
  \* React state (LoginScreen.js 689-709)
  cameraError, cameraVisible, cameraReady, autoCaptureEnabled,
  alignmentScore, alignmentStatus, autoCaptureCountdown,
  fiducialCount, fiducialQuality, fiducialReady,
  \* refs (LoginScreen.js 715-721)
  accelerometerSubscriptionRef, autoCaptureTimerRef, autoCaptureLockRef,
  lastAccelSampleRef, fiducialCheckIntervalRef, fiducialCheckInProgressRef,
  \* Date.now() - started of the live countdown interval (0 without one)
  elapsed,
  \* number of countdown intervals created by setInterval and not yet
  \* cleared by clearInterval
  countdownIntervals,
  \* dependency values of the last render; closures of handlers and
  \* intervals hold these values
  rendered,
  \* callbacks that ran since a render became due
  lag,
  \* number of pending checkFiducials invocations, bag of pending
  \* handleTakePhoto invocations, handleOpenCamera waiting for the permission
  checks, captures, openPending,
  \* history: a countdown is live and every evaluation of the arming effect
  \* since its start met the arm condition; the automatic triggers of the
  \* live countdown; the samples delivered to the live subscription
  armedThroughout, autoFires, samplesSeen,
  \* the sample form and the submit state (LoginScreen.js 674-687, 702-705);
  \* a text is a sequence of characters
  form, predictionResult, resultModalVisible, submitLoading, submitError,
  \* number of pending submitWaterSample calls
  submits

storeVars == << cameraError, cameraVisible, cameraReady, autoCaptureEnabled,
                alignmentScore, alignmentStatus, autoCaptureCountdown,
                fiducialCount, fiducialQuality, fiducialReady,
                accelerometerSubscriptionRef, autoCaptureTimerRef, autoCaptureLockRef,
                lastAccelSampleRef, fiducialCheckIntervalRef, fiducialCheckInProgressRef,
                elapsed, countdownIntervals >>

vars == << cameraError, cameraVisible, cameraReady, autoCaptureEnabled,
           alignmentScore, alignmentStatus, autoCaptureCountdown,
           fiducialCount, fiducialQuality, fiducialReady,
           accelerometerSubscriptionRef, autoCaptureTimerRef, autoCaptureLockRef,
           lastAccelSampleRef, fiducialCheckIntervalRef, fiducialCheckInProgressRef,
           elapsed, countdownIntervals, rendered, lag, checks, captures, openPending,
           armedThroughout, autoFires, samplesSeen,
           form, predictionResult, resultModalVisible, submitLoading, submitError,
           submits >>

\* the state of the capture engine and the state of the sample form
submitVars == << form, predictionResult, resultModalVisible, submitLoading,
                 submitError, submits >>
engineVars == << storeVars, rendered, lag, checks, captures, openPending,
                 armedThroughout, autoFires, samplesSeen >>

\* the mutable store as one record, for the sequential code of a handler
Store ==
  [ cameraError |-> cameraError, cameraVisible |-> cameraVisible,
    cameraReady |-> cameraReady, autoCaptureEnabled |-> autoCaptureEnabled,
    alignmentScore |-> alignmentScore, alignmentStatus |-> alignmentStatus,
    autoCaptureCountdown |-> autoCaptureCountdown,
    fiducialCount |-> fiducialCount, fiducialQuality |-> fiducialQuality,
    fiducialReady |-> fiducialReady,
    accelerometerSubscriptionRef |-> accelerometerSubscriptionRef,
    autoCaptureTimerRef |-> autoCaptureTimerRef,
    autoCaptureLockRef |-> autoCaptureLockRef,
    lastAccelSampleRef |-> lastAccelSampleRef,
    fiducialCheckIntervalRef |-> fiducialCheckIntervalRef,
    fiducialCheckInProgressRef |-> fiducialCheckInProgressRef,
    elapsed |-> elapsed,
    countdownIntervals |-> countdownIntervals ]

\* the store after a handler ran
Commit(s) ==
  /\ cameraError' = s.cameraError
  /\ cameraVisible' = s.cameraVisible
  /\ cameraReady' = s.cameraReady
  /\ autoCaptureEnabled' = s.autoCaptureEnabled
  /\ alignmentScore' = s.alignmentScore
  /\ alignmentStatus' = s.alignmentStatus
  /\ autoCaptureCountdown' = s.autoCaptureCountdown
  /\ fiducialCount' = s.fiducialCount
  /\ fiducialQuality' = s.fiducialQuality
  /\ fiducialReady' = s.fiducialReady
  /\ accelerometerSubscriptionRef' = s.accelerometerSubscriptionRef
  /\ autoCaptureTimerRef' = s.autoCaptureTimerRef
  /\ autoCaptureLockRef' = s.autoCaptureLockRef
  /\ lastAccelSampleRef' = s.lastAccelSampleRef
  /\ fiducialCheckIntervalRef' = s.fiducialCheckIntervalRef
  /\ fiducialCheckInProgressRef' = s.fiducialCheckInProgressRef
  /\ elapsed' = s.elapsed
  /\ countdownIntervals' = s.countdownIntervals
  /\ UNCHANGED submitVars

\* the dependency values of the two effects (LoginScreen.js 864, 1045-1055)
Deps(s) ==
  [ cameraVisible |-> s.cameraVisible, cameraReady |-> s.cameraReady,
    autoCaptureEnabled |-> s.autoCaptureEnabled,
    alignmentScore |-> s.alignmentScore,
    fiducialCount |-> s.fiducialCount, fiducialQuality |-> s.fiducialQuality,
    fiducialReady |-> s.fiducialReady ]

\* cameraRef.current is the CameraView of the Modal, mounted while the
\* rendered cameraVisible is true (LoginScreen.js 1058-1072)
cameraRef == rendered.cameraVisible

\* a status message and its interpolated number; the texts are written in
\* ASCII, without the ellipsis, dash and check mark of the source
Status(text, arg) == [text |-> text, arg |-> arg]

\* a non-empty cameraError; the engine never reads cameraError, and the
\* state keeps only that a text is shown, not which one
ErrorShownEmpty(text) == ""

ErrorShown(text) == "message"

\* ------------------------------------------------------------------------
\* Functions of the component, as store transformers
\* ------------------------------------------------------------------------
\* a clearAutoCaptureTimer without setAutoCaptureCountdown(0)
clearAutoCaptureTimerKeepsCountdown(s, preserveLock) ==
  [s EXCEPT !.autoCaptureTimerRef = FALSE,
            !.countdownIntervals = IF s.autoCaptureTimerRef THEN @ - 1 ELSE @,
            !.elapsed = 0,
            !.fiducialCheckIntervalRef = FALSE,
            !.fiducialCheckInProgressRef = FALSE,
            !.autoCaptureLockRef = IF preserveLock THEN @ ELSE FALSE]

\* clearAutoCaptureTimer (LoginScreen.js 723-741)
\* a clearAutoCaptureTimer that leaves the countdown interval running
clearAutoCaptureTimerKeepsTimer(s, preserveLock) ==
  [s EXCEPT !.fiducialCheckIntervalRef = FALSE,
            !.fiducialCheckInProgressRef = FALSE,
            !.autoCaptureLockRef = IF preserveLock THEN @ ELSE FALSE,
            !.autoCaptureCountdown = 0]

clearAutoCaptureTimer(s, preserveLock) ==
  [s EXCEPT !.autoCaptureTimerRef = FALSE,
            !.countdownIntervals = IF s.autoCaptureTimerRef THEN @ - 1 ELSE @,
            !.elapsed = 0,
            !.fiducialCheckIntervalRef = FALSE,
            !.fiducialCheckInProgressRef = FALSE,
            !.autoCaptureLockRef = IF preserveLock THEN @ ELSE FALSE,
            !.autoCaptureCountdown = 0]

\* stopAlignmentMonitoring (LoginScreen.js 743-756)
stopAlignmentMonitoring(s) ==
  [s EXCEPT !.accelerometerSubscriptionRef = FALSE,
            !.lastAccelSampleRef = << >>,
            !.fiducialCheckIntervalRef = FALSE,
            !.fiducialCheckInProgressRef = FALSE,
            !.fiducialCount = 0,
            !.fiducialQuality = 0,
            !.fiducialReady = FALSE]

\* handleCloseCamera (LoginScreen.js 928-937)
handleCloseCameraKeepsLock(s) ==
  [clearAutoCaptureTimer(stopAlignmentMonitoring(s), TRUE)
     EXCEPT !.cameraVisible = FALSE,
            !.cameraReady = FALSE,
            !.alignmentScore = 0,
            !.alignmentStatus = Status("", 0),
            !.autoCaptureCountdown = 0]

handleCloseCamera(s) ==
  [clearAutoCaptureTimer(stopAlignmentMonitoring(s), FALSE)
     EXCEPT !.cameraVisible = FALSE,
            !.cameraReady = FALSE,
            !.alignmentScore = 0,
            !.alignmentStatus = Status("", 0),
            !.autoCaptureCountdown = 0,
            !.autoCaptureLockRef = FALSE]

\* the reset shared by the !cameraVisible branch and by the cleanup of the
\* monitoring effect (LoginScreen.js 827-836, 854-863)
MonitoringReset(s) ==
  [clearAutoCaptureTimer(stopAlignmentMonitoring(s), FALSE)
     EXCEPT !.alignmentScore = 0,
            !.alignmentStatus = Status("", 0),
            !.fiducialCount = 0,
            !.fiducialQuality = 0,
            !.fiducialReady = FALSE,
            !.lastAccelSampleRef = << >>]

\* body of the monitoring effect for the render r (LoginScreen.js 826-853)
MonitoringBody(s, r) ==
  IF ~r.cameraVisible THEN MonitoringReset(s)
  ELSE [s EXCEPT !.accelerometerSubscriptionRef = TRUE,
                 !.fiducialCheckIntervalRef = TRUE]

\* the monitoring effect of a render whose cameraVisible or cameraReady
\* changed: cleanup of the previous run (it exists when that run saw
\* cameraVisible), then the body
MonitoringEffect(s, r) ==
  MonitoringBody(IF rendered.cameraVisible THEN MonitoringReset(s) ELSE s, r)

\* fiducialsOk, stabilityOk, bothConditionsMet (LoginScreen.js 993-995);
\* a comparison with NaN is false
fiducialsOk(r) == r.fiducialCount >= MIN_FIDUCIALS_FOR_CAPTURE /\ r.fiducialReady
stabilityOk(r) == IsFinite(r.alignmentScore) /\ r.alignmentScore >= AUTO_CAPTURE_START_THRESHOLD
bothConditionsMet(r) == fiducialsOk(r) /\ stabilityOk(r)

\* a derivation without the fiducialReady rule
statusMessageSkipsReady(r) ==
  IF r.fiducialCount = 0 THEN Status("Position the form - looking for corner markers", 0)
  ELSE IF r.fiducialCount < MIN_FIDUCIALS_FOR_CAPTURE
    THEN Status("Found N/4 corners - adjust position", r.fiducialCount)
  ELSE IF ~stabilityOk(r) THEN Status("Corners detected - hold steady", 0)
  ELSE Status("All corners detected - auto capture arming", 0)

\* statusMessage (LoginScreen.js 997-1009)
statusMessage(r) ==
  IF r.fiducialCount = 0 THEN Status("Position the form - looking for corner markers", 0)
  ELSE IF r.fiducialCount < MIN_FIDUCIALS_FOR_CAPTURE
    THEN Status("Found N/4 corners - adjust position", r.fiducialCount)
  ELSE IF ~r.fiducialReady
    THEN Status("All corners found - improve alignment (Q%)", (r.fiducialQuality + 5) \div 10)
  ELSE IF ~stabilityOk(r) THEN Status("Corners detected - hold steady", 0)
  ELSE Status("All corners detected - auto capture arming", 0)

\* the guard of the lock branch of the arming effect (LoginScreen.js 987-990)
ArmingLockedNoGuard(s) == FALSE

ArmingLocked(s) == s.autoCaptureLockRef

\* the condition under which the arming effect starts the countdown
\* (LoginScreen.js 1011)
StartsCountdownAnyFiducials(s, r) == stabilityOk(r) /\ ~s.autoCaptureTimerRef

StartsCountdown(s, r) == bothConditionsMet(r) /\ ~s.autoCaptureTimerRef

\* the condition under which the arming effect cancels the countdown
\* (LoginScreen.js 1031-1040)
CancelsCountdownNever(s, r) == FALSE

\* a cancel condition with a hysteresis band down to
\* AUTO_CAPTURE_CANCEL_THRESHOLD
CancelsCountdownBelowBand(s, r) ==
  /\ s.autoCaptureTimerRef
  /\ ~(fiducialsOk(r) /\ IsFinite(r.alignmentScore)
        /\ r.alignmentScore >= AUTO_CAPTURE_CANCEL_THRESHOLD)

CancelsCountdown(s, r) == ~bothConditionsMet(r) /\ s.autoCaptureTimerRef

\* the arming effect for the render r (LoginScreen.js 971-1044)
ArmingEffect(s, r) ==
  IF ~r.cameraVisible
    THEN [clearAutoCaptureTimer(s, FALSE) EXCEPT !.alignmentStatus = Status("Camera closed", 0)]
  ELSE IF ~r.cameraReady
    THEN [clearAutoCaptureTimer(s, FALSE) EXCEPT !.alignmentStatus = Status("Focusing camera", 0)]
  ELSE IF ~r.autoCaptureEnabled
    THEN [clearAutoCaptureTimer(s, FALSE) EXCEPT !.alignmentStatus = Status("Auto capture disabled", 0)]
  ELSE IF ArmingLocked(s)
    THEN [s EXCEPT !.alignmentStatus = Status("Capturing", 0)]
  ELSE IF StartsCountdown(s, r)
    THEN [s EXCEPT !.alignmentStatus = Status("All corners detected - capturing soon", 0),
                   !.autoCaptureCountdown = AUTO_CAPTURE_START_MS,
                   !.autoCaptureTimerRef = TRUE,
                   !.countdownIntervals = @ + 1,
                   !.elapsed = 0]
  ELSE IF CancelsCountdown(s, r)
    THEN [clearAutoCaptureTimer(s, FALSE) EXCEPT !.alignmentStatus = statusMessage(r)]
  ELSE [s EXCEPT !.alignmentStatus = statusMessage(r)]

\* the arm condition as the arming effect reads it: the values of the
\* render r, the lock ref at the time the effect body runs
ArmCondition(s, r) ==
  /\ r.cameraVisible /\ r.cameraReady /\ r.autoCaptureEnabled
  /\ ~s.autoCaptureLockRef
  /\ r.fiducialCount >= MIN_FIDUCIALS_FOR_CAPTURE /\ r.fiducialReady
  /\ IsFinite(r.alignmentScore) /\ r.alignmentScore >= AUTO_CAPTURE_START_THRESHOLD

\* ------------------------------------------------------------------------
\* validateFiducials (src/unnamed/part_002 50-83).  A response is
\* [kind, body]: "networkError" (fetch rejects), "notOk" (response.ok is
\* false), "badJson" (response.json() rejects), "json" (body parsed).
\* The value is [threw, result].
\* ------------------------------------------------------------------------
NotReady == [detected |-> 0, quality |-> 0, ready |-> FALSE]

Responses ==
  { [kind |-> k, body |-> NotReady] : k \in {"networkError", "notOk", "badJson"} }
  \cup { [kind |-> "json", body |-> b] : b \in FiducialResults }

validateFiducials(response) ==
  IF response.kind \in {"networkError", "notOk"}
    THEN [threw |-> FALSE, result |-> NotReady]
  ELSE IF response.kind = "badJson"
    THEN [threw |-> TRUE, result |-> NotReady]
  ELSE [threw |-> FALSE, result |-> response.body]

\* ------------------------------------------------------------------------
\* Pending asynchronous invocations.  A pending handleTakePhoto is "taking"
\* while takePictureAsync is awaited and "processing" while
\* handlePhotoResult is awaited; after its synchronous part the function
\* no longer reads autoTriggered.
\* ------------------------------------------------------------------------
\* the number of pending invocations
Pending == checks + BagCardinality(captures)

Add(bag, e) == bag (+) SetToBag({e})
Remove(bag, e) == bag (-) SetToBag({e})

\* ------------------------------------------------------------------------
\* Initial state: the component is mounted, both effects have run once
\* with the camera closed (LoginScreen.js 688-721, 827-836, 972-975)
\* ------------------------------------------------------------------------
Init ==
  /\ cameraError = ""
  /\ cameraVisible = FALSE
  /\ cameraReady = FALSE
  /\ autoCaptureEnabled = TRUE
  /\ alignmentScore = 0
  /\ alignmentStatus = Status("Camera closed", 0)
  /\ autoCaptureCountdown = 0
  /\ fiducialCount = 0
  /\ fiducialQuality = 0
  /\ fiducialReady = FALSE
  /\ accelerometerSubscriptionRef = FALSE
  /\ autoCaptureTimerRef = FALSE
  /\ autoCaptureLockRef = FALSE
  /\ lastAccelSampleRef = << >>
  /\ fiducialCheckIntervalRef = FALSE
  /\ fiducialCheckInProgressRef = FALSE
  /\ elapsed = 0
  /\ countdownIntervals = 0
  /\ rendered = [ cameraVisible |-> FALSE, cameraReady |-> FALSE,
                  autoCaptureEnabled |-> TRUE, alignmentScore |-> 0,
                  fiducialCount |-> 0, fiducialQuality |-> 0,
                  fiducialReady |-> FALSE ]
  /\ lag = 0
  /\ checks = 0
  /\ captures = EmptyBag
  /\ openPending = FALSE
  /\ armedThroughout = FALSE
  /\ autoFires = 0
  /\ samplesSeen = 0
  /\ form = [f \in numericFormFields |-> << >>]
  /\ predictionResult = "null"
  /\ resultModalVisible = FALSE
  /\ submitLoading = FALSE
  /\ submitError = ""
  /\ submits = 0

\* a render is due: a dependency of an effect differs from the last render
RenderDue == Deps(Store) # rendered

\* a callback or handler ran and left the store s
Event(s) ==
  /\ RenderDue => lag < MaxLag
  /\ Commit(s)
  /\ lag' = IF RenderDue THEN lag + 1 ELSE 0
  /\ armedThroughout' = (s.autoCaptureTimerRef /\ armedThroughout)
  /\ UNCHANGED rendered

\* samples counted for the subscription that is live in the store s
SamplesAfter(s) == IF s.accelerometerSubscriptionRef THEN samplesSeen ELSE 0

\* automatic triggers counted for the countdown that is live in the store s
FiresAfter(s) == IF s.autoCaptureTimerRef THEN autoFires ELSE 0

\* ------------------------------------------------------------------------
\* Accelerometer listener (LoginScreen.js 839-845)
\* ------------------------------------------------------------------------
\* the listener runs on the sample data, at most limit times a subscription
ListenerRuns(data, limit) ==
  /\ accelerometerSubscriptionRef
  /\ samplesSeen < limit
  /\ Event([Store EXCEPT
       !.lastAccelSampleRef = << data >>,
       !.alignmentScore = Smooth(alignmentScore, Composite(lastAccelSampleRef, data))])
  /\ samplesSeen' = samplesSeen + 1
  /\ UNCHANGED << checks, captures, openPending, autoFires >>

AccelerometerListener(data) == ListenerRuns(data, MaxSamples)

\* the listener on one sample of a long stream
StreamListener(data) == ListenerRuns(data, MaxStream)

\* ------------------------------------------------------------------------
\* Fiducial polling (LoginScreen.js 798-824, 848-852)
\* ------------------------------------------------------------------------
\* the guard of the interval callback (LoginScreen.js 849)
PollCallbackRuns(s) == rendered.cameraReady /\ ~s.autoCaptureLockRef

\* the guard of checkFiducials (LoginScreen.js 799-801)
checkFiducialsRuns(s) ==
  /\ cameraRef
  /\ rendered.cameraReady
  /\ ~s.fiducialCheckInProgressRef
  /\ ~s.autoCaptureLockRef

\* a tick of the polling interval that starts a check; a tick that is
\* skipped changes nothing
PollTick ==
  /\ fiducialCheckIntervalRef
  /\ PollCallbackRuns(Store)
  /\ checkFiducialsRuns(Store)
  /\ Pending < MaxPending
  /\ Event([Store EXCEPT !.fiducialCheckInProgressRef = TRUE])
  /\ checks' = checks + 1
  /\ UNCHANGED << captures, openPending, autoFires, samplesSeen >>

\* the continuation of checkFiducials after validateFiducials settled
\* (LoginScreen.js 814-823)
checkFiducialsApply(s, v) ==
  [(IF v.threw THEN s
    ELSE [s EXCEPT !.fiducialCount = OrZero(v.result.detected),
                   !.fiducialQuality = OrZero(v.result.quality),
                   !.fiducialReady = v.result.ready])
     EXCEPT !.fiducialCheckInProgressRef = FALSE]

\* takePictureAsync of a pending check rejects, or resolves without a uri:
\* the catch or the early return, then the finally block
\* (LoginScreen.js 805-813, 819-823)
SnapshotFails ==
  /\ checks > 0
  /\ Event([Store EXCEPT !.fiducialCheckInProgressRef = FALSE])
  /\ checks' = checks - 1
  /\ UNCHANGED << captures, openPending, autoFires, samplesSeen >>

\* the snapshot of a pending check was taken and validateFiducials settled
\* on the response; the resolution of the snapshot itself writes nothing
ValidateReturns(response) ==
  /\ checks > 0
  /\ Event(checkFiducialsApply(Store, validateFiducials(response)))
  /\ checks' = checks - 1
  /\ UNCHANGED << captures, openPending, autoFires, samplesSeen >>

\* ------------------------------------------------------------------------
\* handleTakePhoto (LoginScreen.js 939-969)
\* ------------------------------------------------------------------------
\* handleTakePhoto reaches takePictureAsync (LoginScreen.js 941-945);
\* cameraReady is the value of the render that created the callback
handleTakePhotoProceedsUnready == cameraRef

handleTakePhotoProceeds == cameraRef /\ rendered.cameraReady

\* the synchronous part of handleTakePhoto, up to the await of
\* takePictureAsync; autoTriggered is the truthiness of the argument
handleTakePhotoSync(s, autoTriggered) ==
  IF ~cameraRef THEN s
  ELSE IF ~rendered.cameraReady
    THEN [s EXCEPT !.cameraError = ErrorShown("Camera is still focusing. Hold steady.")]
  ELSE IF ~autoTriggered THEN clearAutoCaptureTimer(s, FALSE)
  ELSE s

\* the finally block of handleTakePhoto (LoginScreen.js 963-966)
handleTakePhotoFinally(s) ==
  clearAutoCaptureTimer([s EXCEPT !.autoCaptureLockRef = FALSE], FALSE)

\* ------------------------------------------------------------------------
\* Countdown interval callback (LoginScreen.js 1020-1030)
\* ------------------------------------------------------------------------
\* remaining = Math.max(0, AUTO_CAPTURE_START_MS - elapsed)
Remaining(e) == Max(0, AUTO_CAPTURE_START_MS - e)

\* the callback at remaining <= 0 (LoginScreen.js 1024-1029)
CountdownFireKeepsTimer(s) ==
  handleTakePhotoSync([s EXCEPT !.autoCaptureLockRef = TRUE], TRUE)

CountdownFire(s) ==
  handleTakePhotoSync(
    [clearAutoCaptureTimer(s, TRUE) EXCEPT !.autoCaptureLockRef = TRUE],
    TRUE)

\* the store after the callback ran dt after its previous run (or after
\* the interval was created); elapsed saturates where remaining stays 0
CountdownCallback(s, dt) ==
  LET e == Min(s.elapsed + dt, AUTO_CAPTURE_START_MS)
      s0 == [s EXCEPT !.elapsed = e, !.autoCaptureCountdown = Remaining(e)]
  IN IF Remaining(e) <= 0 THEN CountdownFire(s0) ELSE s0

\* the callback fires the automatic trigger when it runs dt later
Fires(dt) == Remaining(Min(elapsed + dt, AUTO_CAPTURE_START_MS)) <= 0

\* a run of the callback that does not fire
CountdownTick(dt) ==
  /\ autoCaptureTimerRef
  /\ ~Fires(dt)
  /\ Event(CountdownCallback(Store, dt))
  /\ UNCHANGED << checks, captures, openPending, autoFires, samplesSeen >>

\* the run of the callback that calls handleTakePhoto(true)
AutoCapture(dt) ==
  /\ autoCaptureTimerRef
  /\ Fires(dt)
  /\ handleTakePhotoProceeds => Pending < MaxPending
  /\ Event(CountdownCallback(Store, dt))
  /\ captures' = IF handleTakePhotoProceeds
                 THEN Add(captures, "taking")
                 ELSE captures
  /\ autoFires' = autoFires + 1
  /\ UNCHANGED << checks, openPending, samplesSeen >>

\* ------------------------------------------------------------------------
\* Capture button (LoginScreen.js 1177-1186): onPress={handleTakePhoto}, so
\* autoTriggered is the press event, a truthy object; the button is
\* disabled while the rendered cameraReady is false
\* ------------------------------------------------------------------------
CaptureButtonPress ==
  /\ cameraRef /\ cameraVisible
  /\ rendered.cameraReady
  /\ Pending < MaxPending
  /\ Event(handleTakePhotoSync(Store, TRUE))
  /\ captures' = IF handleTakePhotoProceeds
                 THEN Add(captures, "taking")
                 ELSE captures
  /\ UNCHANGED << checks, openPending, autoFires, samplesSeen >>

\* takePictureAsync of a capture resolves: handleCloseCamera(), then
\* handlePhotoResult(photo) is awaited (LoginScreen.js 951-958)
TakePictureResolves ==
  /\ BagIn("taking", captures)
  /\ Event(handleCloseCamera(Store))
  /\ captures' = Add(Remove(captures, "taking"), "processing")
  /\ samplesSeen' = 0
  /\ autoFires' = 0
  /\ UNCHANGED << checks, openPending >>

\* takePictureAsync of a capture rejects: catch, then finally
\* (LoginScreen.js 959-966)
TakePictureRejects ==
  /\ BagIn("taking", captures)
  /\ Event(handleTakePhotoFinally(handleCloseCamera(
       [Store EXCEPT !.cameraError = ErrorShown("Unable to capture photo")])))
  /\ captures' = Remove(captures, "taking")
  /\ samplesSeen' = 0
  /\ autoFires' = 0
  /\ UNCHANGED << checks, openPending >>

\* handlePhotoResult settles (it catches its own errors, LoginScreen.js
\* 892-911), then the finally block of handleTakePhoto runs
PhotoResultDone(preprocessOk) ==
  /\ BagIn("processing", captures)
  /\ LET s0 == IF preprocessOk THEN Store
               ELSE [Store EXCEPT !.cameraError = ErrorShown("Failed to normalize capture for OCR. Try again.")]
         s1 == handleTakePhotoFinally(s0)
     IN /\ Event(s1)
        /\ samplesSeen' = SamplesAfter(s1)
        /\ autoFires' = FiresAfter(s1)
  /\ captures' = Remove(captures, "processing")
  /\ UNCHANGED << checks, openPending >>

\* ------------------------------------------------------------------------
\* Camera session handlers
\* ------------------------------------------------------------------------
\* Cancel button or onRequestClose of the camera modal
\* (LoginScreen.js 1062, 1169-1176)
CloseCamera ==
  /\ cameraRef /\ cameraVisible
  /\ Event(handleCloseCamera(Store))
  /\ samplesSeen' = 0
  /\ autoFires' = 0
  /\ UNCHANGED << checks, captures, openPending >>

\* handleOpenCamera up to the await of ensureCameraPermission
\* (LoginScreen.js 913-922); the button lies under the camera modal
OpenCameraPress ==
  /\ ~cameraRef /\ ~cameraVisible /\ ~openPending
  /\ LET s1 == [clearAutoCaptureTimer([Store EXCEPT !.cameraError = ""], FALSE)
                  EXCEPT !.alignmentScore = 0,
                         !.alignmentStatus = Status("", 0)]
     IN /\ Event(s1)
        /\ samplesSeen' = SamplesAfter(s1)
        /\ autoFires' = FiresAfter(s1)
  /\ openPending' = TRUE
  /\ UNCHANGED << checks, captures >>

\* the permission is granted (LoginScreen.js 923-925)
PermissionGranted ==
  /\ openPending
  /\ Event([Store EXCEPT !.cameraReady = FALSE, !.cameraVisible = TRUE])
  /\ openPending' = FALSE
  /\ UNCHANGED << checks, captures, autoFires, samplesSeen >>

\* the permission is refused (LoginScreen.js 888-889, 923)
PermissionDenied ==
  /\ openPending
  /\ Event([Store EXCEPT !.cameraError = ErrorShown("Camera access is required to capture parameter cards.")])
  /\ openPending' = FALSE
  /\ UNCHANGED << checks, captures, autoFires, samplesSeen >>

\* onCameraReady of the mounted CameraView (LoginScreen.js 1071)
OnCameraReady ==
  /\ cameraRef /\ cameraVisible /\ ~cameraReady
  /\ Event([Store EXCEPT !.cameraReady = TRUE])
  /\ UNCHANGED << checks, captures, openPending, autoFires, samplesSeen >>

\* Auto Capture toggle (LoginScreen.js 1153-1161)
ToggleAutoCaptureKeepsTimer ==
  /\ cameraRef /\ cameraVisible
  /\ Event([Store EXCEPT !.autoCaptureEnabled = ~autoCaptureEnabled])
  /\ UNCHANGED << checks, captures, openPending, autoFires, samplesSeen >>

ToggleAutoCapture ==
  /\ cameraRef /\ cameraVisible
  /\ LET next == ~autoCaptureEnabled
         s1 == IF ~next THEN clearAutoCaptureTimer(Store, FALSE) ELSE Store
     IN /\ Event([s1 EXCEPT !.autoCaptureEnabled = next])
        /\ autoFires' = FiresAfter(s1)
  /\ UNCHANGED << checks, captures, openPending, samplesSeen >>

\* ------------------------------------------------------------------------
\* Render: commit of the latest state and the effects whose dependencies
\* changed (LoginScreen.js 826-864, 971-1055)
\* ------------------------------------------------------------------------
\* the monitoring effect runs in the render r
MonitoringRuns(r) ==
  \/ r.cameraVisible # rendered.cameraVisible
  \/ r.cameraReady # rendered.cameraReady

\* the store when the body of the arming effect starts in the render r
BeforeArming(s, r) == IF MonitoringRuns(r) THEN MonitoringEffect(s, r) ELSE s

Render ==
  LET r == Deps(Store)
      s1 == BeforeArming(Store, r)
      s2 == ArmingEffect(s1, r)
  IN /\ RenderDue
     /\ Commit(s2)
     /\ rendered' = r
     /\ lag' = 0
     /\ armedThroughout' = (s2.autoCaptureTimerRef /\ ArmCondition(s1, r)
                             /\ (s1.autoCaptureTimerRef => armedThroughout))
     /\ autoFires' = IF s2.autoCaptureTimerRef /\ s1.autoCaptureTimerRef
                     THEN autoFires ELSE 0
     /\ samplesSeen' = IF MonitoringRuns(r) THEN 0 ELSE SamplesAfter(s2)
     /\ UNCHANGED << checks, captures, openPending >>

\* ------------------------------------------------------------------------
\* Specification of the engine
\* ------------------------------------------------------------------------
Next ==
  \/ \E data \in EngineSamples : AccelerometerListener(data)
  \/ PollTick
  \/ SnapshotFails
  \/ \E response \in Responses : ValidateReturns(response)
  \/ \E dt \in TickDelays : CountdownTick(dt)
  \/ \E dt \in TickDelays : AutoCapture(dt)
  \/ CaptureButtonPress
  \/ TakePictureResolves
  \/ TakePictureRejects
  \/ \E ok \in BOOLEAN : PhotoResultDone(ok)
  \/ CloseCamera
  \/ OpenCameraPress
  \/ PermissionGranted
  \/ PermissionDenied
  \/ OnCameraReady
  \/ ToggleAutoCapture
  \/ Render

Spec == Init /\ [][Next]_vars

\* ------------------------------------------------------------------------
\* Specification of the motion path: the accelerometer listener under
\* every class of sample, with the session handlers that subscribe and
\* unsubscribe it
\* ------------------------------------------------------------------------
NextMotion ==
  \/ \E data \in MotionSamples : AccelerometerListener(data)
  \/ OpenCameraPress
  \/ PermissionGranted
  \/ OnCameraReady
  \/ CloseCamera
  \/ Render

SpecMotion == Init /\ [][NextMotion]_vars

\* ------------------------------------------------------------------------
\* Specification of the engine with its scheduling: React commits a due
\* render, and the promise of takePictureAsync settles (it resolves or
\* rejects) however often other callbacks run first
\* ------------------------------------------------------------------------
\* the device rests level, the validation answers with four ready
\* corners, the countdown callback runs every third tick period, and
\* auto-capture stays switched on
FiringSamples == {Level}
FiringResponses ==
  { [kind |-> "json", body |-> [detected |-> 4, quality |-> 900, ready |-> TRUE]] }
FiringDelays == {3 * COUNTDOWN_TICK_MS}

NextFiring ==
  \/ \E data \in FiringSamples : AccelerometerListener(data)
  \/ PollTick
  \/ \E response \in FiringResponses : ValidateReturns(response)
  \/ \E dt \in FiringDelays : CountdownTick(dt)
  \/ \E dt \in FiringDelays : AutoCapture(dt)
  \/ CaptureButtonPress
  \/ TakePictureResolves
  \/ TakePictureRejects
  \/ PhotoResultDone(TRUE)
  \/ CloseCamera
  \/ OpenCameraPress
  \/ PermissionGranted
  \/ OnCameraReady
  \/ Render

ActuatorSettles == TakePictureResolves \/ TakePictureRejects

SpecFiring ==
  Init /\ [][NextFiring]_vars /\ WF_vars(Render) /\ SF_vars(ActuatorSettles)

\* ------------------------------------------------------------------------
\* Specifications of a sample stream: the session is opened and polled as
\* in the engine, the sensor delivers one kind of stream
\* ------------------------------------------------------------------------
SessionSteps ==
  \/ OpenCameraPress
  \/ PermissionGranted
  \/ OnCameraReady
  \/ PollTick
  \/ \E response \in Responses : ValidateReturns(response)
  \/ Render

\* Euclidean distance of two samples
Distance(a, b) ==
  Sqrt((a.x - b.x) * (a.x - b.x) + (a.y - b.y) * (a.y - b.y) + (a.z - b.z) * (a.z - b.z))

\* data continues a shaking stream: it is the first sample of the
\* subscription or it lies MAX_ACCEL_DELTA or more from the previous one
Shaking(data) ==
  IF lastAccelSampleRef = << >> THEN TRUE
  ELSE Distance(lastAccelSampleRef[1], data) >= MAX_ACCEL_DELTA

\* the device rests level: every sample is Level
NextLevel ==
  \/ StreamListener(Level)
  \/ SessionSteps

SpecLevel == Init /\ [][NextLevel]_vars

\* the device shakes
NextShaking ==
  \/ \E data \in ShakeSamples : Shaking(data) /\ StreamListener(data)
  \/ SessionSteps

SpecShaking == Init /\ [][NextShaking]_vars

\* ------------------------------------------------------------------------
\* Specification of the status derivation: the session is opened, polled
\* and toggled, the validation answers with every class of result
\* ------------------------------------------------------------------------
StatusResults ==
  FiducialResults \cup
    { [detected |-> 4, quality |-> 555, ready |-> FALSE],
      [detected |-> 3, quality |-> 700, ready |-> FALSE],
      [detected |-> 0, quality |-> 0, ready |-> FALSE] }

StatusResponses == { [kind |-> "json", body |-> b] : b \in StatusResults }

NextStatus ==
  \/ \E data \in EngineSamples : StreamListener(data)
  \/ \E response \in StatusResponses : ValidateReturns(response)
  \/ ToggleAutoCapture
  \/ SessionSteps

SpecStatus == Init /\ [][NextStatus]_vars

\* ------------------------------------------------------------------------
\* Specification of the result setters without automatic batching.  The
\* three setters of checkFiducials run after an await, outside a React
\* event handler.  A concurrent root batches them into one render
\* (ValidateReturns); a legacy root renders synchronously inside every
\* setter that changes its state and runs the effects of that render
\* before the next one starts.  Which root renders the screen is decided
\* by the build, so both are steps of this specification.
\* ------------------------------------------------------------------------
\* the store after setFiducialCount, setFiducialQuality, setFiducialReady
\* on a legacy root (LoginScreen.js 814-816)
SettersUnbatched(s, result) ==
  LET r0 == Deps(s)
      s1 == [s EXCEPT !.fiducialCount = OrZero(result.detected)]
      r1 == Deps(s1)
      e1 == IF r1 # r0 THEN ArmingEffect(s1, r1) ELSE s1
      s2 == [e1 EXCEPT !.fiducialQuality = OrZero(result.quality)]
      r2 == Deps(s2)
  IN [ store |-> [(IF r2 # r1 THEN ArmingEffect(s2, r2) ELSE s2)
                     EXCEPT !.fiducialReady = result.ready],
       evaluated |-> IF r2 # r1 THEN << r2 >>
                     ELSE IF r1 # r0 THEN << r1 >> ELSE << >> ]

\* validateFiducials settled on the response and the continuation of
\* checkFiducials ran on a legacy root (LoginScreen.js 814-823)
ValidateReturnsUnbatched(response) ==
  LET v == validateFiducials(response)
      u == SettersUnbatched(Store, v.result)
      s3 == [u.store EXCEPT !.fiducialCheckInProgressRef = FALSE]
  IN /\ checks > 0
     /\ ~v.threw
     /\ ~RenderDue
     /\ Commit(s3)
     /\ rendered' = IF u.evaluated = << >> THEN rendered ELSE u.evaluated[1]
     /\ lag' = 0
     /\ armedThroughout' = FALSE
     /\ autoFires' = FiresAfter(s3)
     /\ checks' = checks - 1
     /\ UNCHANGED << captures, openPending, samplesSeen >>

NextUnbatched ==
  \/ \E data \in EngineSamples : AccelerometerListener(data)
  \/ \E response \in StatusResponses : ValidateReturnsUnbatched(response)
  \/ SessionSteps

SpecUnbatched == Init /\ [][NextUnbatched]_vars

\* ------------------------------------------------------------------------
\* Specification of polling with its scheduling: React commits a due
\* render and the polling interval keeps ticking while it is live.  The
\* answer of /fiducial/validate is the server's step: it may never come,
\* and validateFiducials sets no timeout on its fetch
\* (src/unnamed/part_002 62-75)
\* ------------------------------------------------------------------------
NextPolling ==
  \/ \E data \in EngineSamples : AccelerometerListener(data)
  \/ SnapshotFails
  \/ SessionSteps

SpecPolling ==
  Init /\ [][NextPolling]_vars /\ WF_vars(Render) /\ WF_vars(PollTick)

\* ------------------------------------------------------------------------
\* Steps named by the properties
\* ------------------------------------------------------------------------
\* the countdown callback calls handleTakePhoto(true)
AutoCaptureStep == \E dt \in TickDelays : AutoCapture(dt)

\* handleCloseCamera runs: Cancel or back button, or the end of a capture
ClosingStep ==
  \/ CloseCamera
  \/ TakePictureResolves
  \/ TakePictureRejects

\* a countdown interval is created
CountdownStarts == autoCaptureTimerRef' /\ ~autoCaptureTimerRef

FiducialsZero == fiducialCount = 0 /\ fiducialQuality = 0 /\ ~fiducialReady

\* ------------------------------------------------------------------------
\* Properties
\* ------------------------------------------------------------------------
\* C1: within one arm cycle the automatic trigger handleTakePhoto(true) is
\* invoked at most once, and while a countdown runs no step restarts it or
\* replaces it by a second one (its start time never moves forward).
C1_AtMostOneTriggerPerArmCycle ==
  /\ [](autoFires <= 1)
  /\ [][autoCaptureTimerRef /\ autoCaptureTimerRef' => elapsed' >= elapsed]_vars

C1_Witness == autoFires = 1 /\ autoCaptureLockRef /\ BagIn("taking", captures)

\* C2: the automatic trigger fires only when every evaluation of the arming
\* effect since the start of the countdown, the most recent one included,
\* met the arm condition, and only when AUTO_CAPTURE_START_MS have elapsed
\* since the start.
C2_FiresOnlyAfterSustainedCondition ==
  [][\A dt \in TickDelays :
       AutoCapture(dt) => (armedThroughout /\ elapsed + dt >= AUTO_CAPTURE_START_MS)]_vars

C2_Witness ==
  /\ autoCaptureLockRef /\ BagIn("taking", captures)
  /\ autoCaptureCountdown = 0 /\ ~autoCaptureTimerRef /\ cameraVisible
  /\ bothConditionsMet(rendered)

\* C3: an evaluation of the arming effect starts the countdown if and only
\* if the arm condition holds in it and no countdown is running; no other
\* step starts a countdown.
C3_EntersArmingIffArmCondition ==
  [][ /\ Render =>
           LET r == Deps(Store)
               s1 == BeforeArming(Store, r)
           IN (autoCaptureTimerRef' /\ ~s1.autoCaptureTimerRef)
                <=> (ArmCondition(s1, r) /\ ~s1.autoCaptureTimerRef)
      /\ CountdownStarts => Render ]_vars

C3_Witness ==
  /\ autoCaptureTimerRef /\ elapsed = 0
  /\ autoCaptureCountdown = AUTO_CAPTURE_START_MS
  /\ alignmentStatus.text = "All corners detected - capturing soon"

\* C4: once a part of the arm condition has stopped holding while the
\* countdown runs, that arm cycle does not fire: the automatic trigger is
\* never invoked in a state whose arm condition is false.
C4_BrokenConditionNeverFires ==
  [][AutoCaptureStep => ArmCondition(Store, Deps(Store))]_vars

\* C5: the firing sets the lock and calls the capture actuator; as long as
\* the lock stays set no step starts a countdown or a fiducial check.
C5_LockBlocksArmingAndChecks ==
  [][ /\ AutoCaptureStep =>
           (autoCaptureLockRef' /\ captures' = Add(captures, "taking"))
      /\ (autoCaptureLockRef /\ autoCaptureLockRef') =>
           (~CountdownStarts /\ checks' <= checks) ]_vars

C5_Witness ==
  /\ autoCaptureLockRef
  /\ alignmentStatus.text = "Capturing"
  /\ rendered.fiducialCount >= MIN_FIDUCIALS_FOR_CAPTURE /\ rendered.fiducialReady
  /\ IsFinite(rendered.alignmentScore)
  /\ rendered.alignmentScore >= AUTO_CAPTURE_START_THRESHOLD

\* C6: handleCloseCamera leaves the readiness state at its initial values,
\* the listener removed, both intervals cleared and the lock released;
\* while the camera is closed no countdown exists and no automatic trigger
\* fires.
C6_CloseResetsEverything ==
  /\ [][ClosingStep =>
          /\ alignmentScore' = 0 /\ fiducialCount' = 0 /\ fiducialQuality' = 0
          /\ ~fiducialReady' /\ autoCaptureCountdown' = 0
          /\ ~autoCaptureLockRef' /\ ~accelerometerSubscriptionRef'
          /\ ~autoCaptureTimerRef' /\ ~fiducialCheckIntervalRef']_vars
  /\ [][AutoCaptureStep => cameraVisible]_vars
  /\ [](~cameraVisible => ~autoCaptureTimerRef)

C6_Witness ==
  /\ ~cameraVisible /\ rendered.cameraVisible
  /\ bothConditionsMet(rendered) /\ ~bothConditionsMet(Deps(Store))
  /\ BagIn("processing", captures)
  /\ ~autoCaptureLockRef /\ ~autoCaptureTimerRef

\* C7: a check of a closed session has no effect: while the camera is
\* closed, and in a re-opened session until the camera is ready (before
\* that no check of the new session can exist), the fiducial state is
\* 0 / 0 / false.
C7_StaleCheckHasNoEffect == (~cameraVisible \/ ~cameraReady) => FiducialsZero

\* C8: after every failed check (network error, non-OK status, unparsable
\* body, failed snapshot) the fiducial state is 0 / 0 / false.
C8_FailedCheckAppliesNotReady ==
  [][ (\/ SnapshotFails
       \/ \E response \in Responses :
            response.kind # "json" /\ ValidateReturns(response))
      => (fiducialCount' = 0 /\ fiducialQuality' = 0 /\ ~fiducialReady') ]_vars

\* C9: alignmentScore is a number of [0, 1] in every reachable state.
C9_AlignmentScoreInUnitInterval ==
  IsFinite(alignmentScore) /\ alignmentScore >= 0 /\ alignmentScore <= Scale

\* C10: a sample with a NaN or infinite component is rejected: the listener
\* leaves alignmentScore and the stored previous sample unchanged.
C10_InvalidSampleRejected ==
  [][\A data \in {NaNSample, InfSample} :
       AccelerometerListener(data) =>
         (alignmentScore' = alignmentScore /\ lastAccelSampleRef' = lastAccelSampleRef)]_vars

\* C11: a press of the Capture button calls the capture actuator whatever
\* the arm state, the toggle and the fiducial and alignment values are, and
\* only with cameraReady true; where the camera is mounted and not ready,
\* handleTakePhoto sets an error message and takes no picture.
C11_ManualCaptureRespectsCameraReady ==
  /\ [][CaptureButtonPress =>
          (cameraReady /\ rendered.cameraReady /\ captures' = Add(captures, "taking"))]_vars
  /\ []((cameraRef /\ ~rendered.cameraReady) =>
          (~handleTakePhotoProceeds /\ handleTakePhotoSync(Store, TRUE).cameraError # ""))

\* a manual capture in flight that was taken while the countdown runs
C11_Witness ==
  /\ BagIn("taking", captures) /\ autoCaptureTimerRef /\ ~autoCaptureLockRef
  /\ autoFires = 0

\* C12: when takePictureAsync of a capture rejects, a non-empty cameraError
\* is set and the engine is left unlocked, without countdown interval and
\* with countdown 0.
C12_ActuatorFailureResetsEngine ==
  [][TakePictureRejects =>
       /\ cameraError' # ""
       /\ ~autoCaptureLockRef' /\ ~autoCaptureTimerRef' /\ autoCaptureCountdown' = 0
       /\ ~cameraVisible']_vars

\* the capture of a session whose last render met the arm condition has
\* just failed
C12_Witness ==
  /\ cameraError # "" /\ captures = EmptyBag
  /\ ~cameraVisible /\ rendered.cameraVisible /\ bothConditionsMet(rendered)
  /\ ~autoCaptureLockRef /\ ~autoCaptureTimerRef /\ autoCaptureCountdown = 0

\* C13: while autoCaptureEnabled is false no countdown interval exists,
\* none is started and the automatic trigger does not fire; switching
\* auto capture off clears a running countdown (countdown 0) in that step,
\* which calls no capture.
C13_DisabledNeverArmsNorFires ==
  /\ [](~autoCaptureEnabled => (~autoCaptureTimerRef /\ autoCaptureCountdown = 0))
  /\ [][AutoCaptureStep => autoCaptureEnabled]_vars
  /\ [][autoCaptureTimerRef' => autoCaptureEnabled']_vars
  /\ [][(ToggleAutoCapture /\ autoCaptureEnabled) =>
          (~autoCaptureTimerRef' /\ autoCaptureCountdown' = 0 /\ captures' = captures)]_vars

\* the arming effect ran with auto capture off while every other part of
\* the arm condition holds
C13_Witness ==
  /\ ~autoCaptureEnabled /\ rendered = Deps(Store)
  /\ cameraVisible /\ cameraReady /\ ~autoCaptureLockRef
  /\ bothConditionsMet(rendered)
  /\ alignmentStatus.text = "Auto capture disabled"

\* C14: at most one fiducial check is in flight: no check is started while
\* an earlier one has not returned.
C14_AtMostOneCheckInFlight == checks <= 1

\* C15: no fiducial check is started while a countdown runs or while the
\* lock is set.
C15_NoCheckWhileArmedOrFiring ==
  [][PollTick => (~autoCaptureTimerRef /\ ~autoCaptureLockRef)]_vars

C18_PollingStaysScheduled ==
  ( /\ cameraVisible /\ cameraReady /\ autoCaptureEnabled
    /\ rendered = Deps(Store)
    /\ ~autoCaptureLockRef /\ ~fiducialCheckInProgressRef )
  => fiducialCheckIntervalRef

\* C19: once the automatic trigger has set the lock, the engine reaches a
\* state with the lock free, no countdown timer and countdown 0, provided
\* the actuator call settles; the lock is never set without a capture in
\* flight
C19_FiringEndsUnlocked ==
  /\ autoCaptureLockRef ~> (~autoCaptureLockRef /\ ~autoCaptureTimerRef /\ autoCaptureCountdown = 0)
  /\ [](autoCaptureLockRef => BagIn("taking", captures))

\* the automatic trigger has fired and its actuator call is the one
\* pending operation of the still open session
C19_Witness ==
  /\ autoCaptureLockRef /\ captures = SetToBag({"taking"}) /\ checks = 0
  /\ cameraVisible /\ autoFires = 1
  /\ ~autoCaptureTimerRef /\ autoCaptureCountdown = 0

\* C20: the first sample of a subscription makes alignmentScore the
\* composite of that sample, computed with zero jitter penalty; every later
\* sample makes it 0.55 * alignmentScore + 0.45 * composite
C20_SmoothingRule ==
  [][\A data \in ShakeSamples :
       StreamListener(data) =>
         LET composite == Composite(lastAccelSampleRef, data)
         IN alignmentScore' =
              IF lastAccelSampleRef = << >> THEN composite
              ELSE (alignmentScore * 55 + composite * 45 + 50) \div 100]_vars

\* C21 as stated: an evaluation of the arming effect with the camera
\* open and ready, auto-capture enabled and the lock free sets the message
\* of the first matching rule of the list, and no other message
C21_StatusByPriorityList ==
  [][LET r == Deps(Store)
         s1 == BeforeArming(Store, r)
     IN (Render /\ r.cameraVisible /\ r.cameraReady /\ r.autoCaptureEnabled
           /\ ~s1.autoCaptureLockRef) =>
          alignmentStatus' =
            IF r.fiducialCount = 0
              THEN Status("Position the form - looking for corner markers", 0)
            ELSE IF r.fiducialCount < 4
              THEN Status("Found N/4 corners - adjust position", r.fiducialCount)
            ELSE IF ~r.fiducialReady
              THEN Status("All corners found - improve alignment (Q%)",
                          (r.fiducialQuality + 5) \div 10)
            ELSE IF r.alignmentScore < 550
              THEN Status("Corners detected - hold steady", 0)
            ELSE Status("All corners detected - auto capture arming", 0)]_vars

\* C21 amended: the evaluation that starts a countdown sets "All corners
\* detected - capturing soon"; every other evaluation in that situation
\* sets the message of the first matching rule of the list
C21_StatusByPriorityListOrCapturingSoon ==
  [][LET r == Deps(Store)
         s1 == BeforeArming(Store, r)
     IN (Render /\ r.cameraVisible /\ r.cameraReady /\ r.autoCaptureEnabled
           /\ ~s1.autoCaptureLockRef) =>
          alignmentStatus' =
            IF /\ r.fiducialCount >= 4 /\ r.fiducialReady /\ r.alignmentScore >= 550
               /\ ~s1.autoCaptureTimerRef
              THEN Status("All corners detected - capturing soon", 0)
            ELSE IF r.fiducialCount = 0
              THEN Status("Position the form - looking for corner markers", 0)
            ELSE IF r.fiducialCount < 4
              THEN Status("Found N/4 corners - adjust position", r.fiducialCount)
            ELSE IF ~r.fiducialReady
              THEN Status("All corners found - improve alignment (Q%)",
                          (r.fiducialQuality + 5) \div 10)
            ELSE IF r.alignmentScore < 550
              THEN Status("Corners detected - hold steady", 0)
            ELSE Status("All corners detected - auto capture arming", 0)]_vars

\* four corners that are not ready were rendered: the third rule gave the
\* message, with the rounded quality
C21_Witness ==
  /\ rendered = Deps(Store) /\ cameraReady /\ autoCaptureEnabled
  /\ fiducialCount = 4 /\ ~fiducialReady
  /\ alignmentStatus = Status("All corners found - improve alignment (Q%)", 56)

\* C22: an evaluation of the arming effect while a countdown runs (camera
\* open and ready, auto-capture enabled, lock free) keeps the countdown
\* exactly when fiducialCount >= 4, fiducialReady and alignmentScore >=
\* AUTO_CAPTURE_START_THRESHOLD hold, and cancels it otherwise, also when
\* the score is still at or above AUTO_CAPTURE_CANCEL_THRESHOLD
C22_CancelIsNegatedEntryCondition ==
  [][LET r == Deps(Store)
         s1 == BeforeArming(Store, r)
     IN (Render /\ r.cameraVisible /\ r.cameraReady /\ r.autoCaptureEnabled
           /\ ~s1.autoCaptureLockRef /\ s1.autoCaptureTimerRef) =>
          /\ autoCaptureTimerRef' =
               ( /\ r.fiducialCount >= MIN_FIDUCIALS_FOR_CAPTURE /\ r.fiducialReady
                 /\ r.alignmentScore >= AUTO_CAPTURE_START_THRESHOLD )
          /\ ~autoCaptureTimerRef' => autoCaptureCountdown' = 0]_vars

\* a countdown runs, the corners are still ready, and a sample has brought
\* the score between the two thresholds: the render that cancels is due
C22_Witness ==
  /\ autoCaptureTimerRef /\ autoCaptureCountdown = AUTO_CAPTURE_START_MS
  /\ cameraVisible /\ cameraReady /\ autoCaptureEnabled /\ ~autoCaptureLockRef
  /\ bothConditionsMet(rendered) /\ fiducialsOk(Deps(Store))
  /\ alignmentScore >= AUTO_CAPTURE_CANCEL_THRESHOLD
  /\ alignmentScore < AUTO_CAPTURE_START_THRESHOLD

C24_CountdownValue ==
  /\ [][CountdownStarts => autoCaptureCountdown' = AUTO_CAPTURE_START_MS]_vars
  /\ [][\A dt \in TickDelays :
          CountdownTick(dt) =>
            /\ autoCaptureCountdown' = Max(0, AUTO_CAPTURE_START_MS - (elapsed + dt))
            /\ autoCaptureCountdown' > 0 /\ autoCaptureTimerRef']_vars
  /\ [][(autoCaptureTimerRef /\ autoCaptureTimerRef') =>
          autoCaptureCountdown' <= autoCaptureCountdown]_vars
  /\ [](autoCaptureCountdown >= 0 /\ autoCaptureCountdown <= AUTO_CAPTURE_START_MS)
  /\ [][\A dt \in TickDelays :
          AutoCapture(dt) => Max(0, AUTO_CAPTURE_START_MS - (elapsed + dt)) = 0]_vars
  /\ [](~autoCaptureTimerRef => autoCaptureCountdown = 0)

\* a countdown runs and its callback has run at least twice without
\* firing: the value is what is left of AUTO_CAPTURE_START_MS
C24_Witness ==
  /\ autoCaptureTimerRef /\ ~autoCaptureLockRef
  /\ elapsed >= 4 * COUNTDOWN_TICK_MS /\ elapsed < AUTO_CAPTURE_START_MS
  /\ autoCaptureCountdown = AUTO_CAPTURE_START_MS - elapsed

\* C25: a fiducial check always terminates: whenever the in-flight flag is
\* set it is released again, even if the validation request is never
\* answered
C25_CheckAlwaysTerminates ==
  fiducialCheckInProgressRef ~> ~fiducialCheckInProgressRef

\* C26: a press of the Capture button while a countdown runs cancels the
\* countdown, and the automatic trigger never fires while a capture is in
\* flight
C26_ManualCaptureCancelsCountdown ==
  /\ [][(CaptureButtonPress /\ autoCaptureTimerRef) =>
          (~autoCaptureTimerRef' /\ autoCaptureCountdown' = 0)]_vars
  /\ [][AutoCaptureStep => captures = EmptyBag]_vars

\* C27: the lock set at firing is cleared only by the completion of a
\* capture or by the end of the session (Cancel), not by any other event
C27_LockHeldUntilCaptureCompletes ==
  [][(autoCaptureLockRef /\ ~autoCaptureLockRef') =>
       (ClosingStep \/ \E ok \in BOOLEAN : PhotoResultDone(ok))]_vars

\* C28: when the post-processing of an earlier capture ends while the
\* camera is open again, the countdown timer, the polling interval, the
\* in-flight flag and the lock of the new session stay as they are
C28_EarlierCaptureLeavesNewSession ==
  [][((\E ok \in BOOLEAN : PhotoResultDone(ok)) /\ cameraVisible) =>
       UNCHANGED << autoCaptureTimerRef, fiducialCheckIntervalRef,
                    fiducialCheckInProgressRef, autoCaptureLockRef >>]_vars

\* ------------------------------------------------------------------------
\* Submitting the sample (LoginScreen.js 871-873, 1240-1293; api.js 85-101)
\* ------------------------------------------------------------------------
\* WaterResultScreen visible={resultModalVisible && Boolean(predictionResult)}
ResultModalShown == resultModalVisible /\ predictionResult # "null"

\* buildSamplePayload: the ten numeric fields of the payload
buildSamplePayload == [f \in numericFormFields |-> parseNumericInput(form[f])]

\* numericValues: the fields that hold a finite number
numericValues(payload) == { f \in numericFormFields : payload[f].isNumber }

EnoughNumericValuesTwo(payload) == Cardinality(numericValues(payload)) >= 2

\* the negation of numericValues.length < 3
EnoughNumericValues(payload) == Cardinality(numericValues(payload)) >= 3

\* bodies the prediction service answers a 2xx with, and the messages of
\* the errors submitWaterSample throws
SubmitResults == { "null", "potable", "notPotable" }
SubmitErrors ==
  { "Unable to submit water sample.", "server detail",
    "Failed to save and analyze sample." }

\* updateField, from a TextInput of the form; the form is covered while the
\* result modal is shown
updateField(key, value) ==
  /\ ~ResultModalShown
  /\ form[key] # value
  /\ form' = [form EXCEPT ![key] = value]
  /\ UNCHANGED << predictionResult, resultModalVisible, submitLoading,
                  submitError, submits >>
  /\ UNCHANGED engineVars

\* handleSubmit up to its await or early return; the button is disabled
\* while submitLoading
handleSubmit ==
  /\ ~ResultModalShown
  /\ ~submitLoading
  /\ resultModalVisible' = FALSE
  /\ IF ~EnoughNumericValues(buildSamplePayload)
     THEN /\ submitError' =
               "Enter at least three numeric parameters before running checks."
          /\ UNCHANGED << submitLoading, submits >>
     ELSE /\ submitError' = ""
          /\ submitLoading' = TRUE
          /\ submits' = submits + 1
  /\ UNCHANGED << form, predictionResult >>
  /\ UNCHANGED engineVars

\* submitWaterSample resolves: the try block and the finally block
SubmitResolves(result) ==
  /\ submits > 0
  /\ predictionResult' = result
  /\ resultModalVisible' = TRUE
  /\ submitLoading' = FALSE
  /\ submits' = submits - 1
  /\ UNCHANGED << form, submitError >>
  /\ UNCHANGED engineVars

\* submitWaterSample throws: the catch block and the finally block
SubmitRejects(message) ==
  /\ submits > 0
  /\ submitError' = message
  /\ submitLoading' = FALSE
  /\ submits' = submits - 1
  /\ UNCHANGED << form, predictionResult, resultModalVisible >>
  /\ UNCHANGED engineVars

handleCloseResult ==
  /\ ResultModalShown
  /\ resultModalVisible' = FALSE
  /\ UNCHANGED << form, predictionResult, submitLoading, submitError, submits >>
  /\ UNCHANGED engineVars

NextSubmit ==
  \/ \E key \in numericFormFields : \E value \in FieldTexts(key) :
       updateField(key, value)
  \/ handleSubmit
  \/ \E result \in SubmitResults : SubmitResolves(result)
  \/ \E message \in SubmitErrors : SubmitRejects(message)
  \/ handleCloseResult

SpecSubmit == Init /\ [][NextSubmit]_vars

\* C29: handleSubmit sends the sample only when at least three of the ten
\* numeric fields parse to finite numbers; with fewer it sets submitError,
\* makes no call and leaves predictionResult unchanged and the result modal
\* closed; once an attempt has completed, with a result or with an error,
\* submitLoading is false.
C29_SubmitNeedsThreeNumbers ==
  /\ [][handleSubmit =>
          IF Cardinality({ f \in numericFormFields :
                             parseNumericInput(form[f]).isNumber }) >= 3
          THEN submits' = submits + 1 /\ submitLoading'
          ELSE /\ submitError' # ""
               /\ submits' = submits
               /\ predictionResult' = predictionResult
               /\ ~ResultModalShown'
               /\ ~resultModalVisible']_vars
  /\ [][((\E result \in SubmitResults : SubmitResolves(result))
          \/ (\E message \in SubmitErrors : SubmitRejects(message)))
        => ~submitLoading']_vars
  /\ [](submits = 0 => ~submitLoading)

\* a refused attempt after an accepted one: two numbers and a text that
\* does not parse, the earlier result kept, the modal closed, nothing sent
C29_Witness ==
  /\ Cardinality({ f \in numericFormFields :
                     parseNumericInput(form[f]).isNumber }) = 2
  /\ form["pH"] = << "7", " ", "7" >>
  /\ submitError =
       "Enter at least three numeric parameters before running checks."
  /\ predictionResult = "potable"
  /\ ~resultModalVisible
  /\ ~submitLoading
  /\ submits = 0

\* C30: at most one countdown interval is live, a live interval is the one
\* autoCaptureTimerRef holds, and the lock and a live countdown interval are
\* never both present.
C30_TimerLockInvariant ==
  /\ countdownIntervals = (IF autoCaptureTimerRef THEN 1 ELSE 0)
  /\ autoCaptureLockRef => (~autoCaptureTimerRef /\ countdownIntervals = 0)

\* the countdown interval has fired: the lock is set, the interval is cleared
\* and the capture is under way
C30_Witness ==
  /\ autoCaptureLockRef /\ ~autoCaptureTimerRef /\ countdownIntervals = 0
  /\ autoFires = 1 /\ captures # EmptyBag /\ cameraVisible

====
